---------------------------- MODULE Spec2Model ----------------------------
(***************************************************************************)
(* Model of src/bot.py (SuperquoteBot): the command grammar, the store    *)
(* operations on the MongoDB collection, and the handle_message           *)
(* dispatcher with its per-chat pending deletions.                        *)
(*                                                                         *)
(* Text is modelled character by character: a Python str is a sequence of *)
(* one-character strings, and every regular expression of the source is   *)
(* an operator on such sequences.  Amounts are fixed point: quota and     *)
(* importo are hundredths, vincita (= quota * importo) is in units of     *)
(* 1/10000.  Timestamps ('%Y-%m-%d %H:%M:%S' strings, compared as         *)
(* strings) are the integer number of clock seconds they denote.          *)
(***************************************************************************)
EXTENDS Integers, Sequences, FiniteSets, TLC

(***************************************************************************)
(* Bounds of the model.                                                    *)
(***************************************************************************)
MaxRecords == 2     \* documents the collection may hold
MaxClock == 1       \* last value of the clock (seconds)
MaxMsgs == 3        \* messages handled in one behaviour
MaxStored == 3      \* documents a collection holds when the reports start

(***************************************************************************)
(* Characters and str methods.                                             *)
(***************************************************************************)
DigitChars == <<"0", "1", "2", "3", "4", "5", "6", "7", "8", "9">>

Digits == {DigitChars[i] : i \in 1..Len(DigitChars)}

UpperLetters ==
    {"A", "B", "C", "D", "E", "F", "G", "H", "I", "J", "K", "L", "M",
     "N", "O", "P", "Q", "R", "S", "T", "U", "V", "W", "X", "Y", "Z"}

ToUpperMap ==
    [a |-> "A", b |-> "B", c |-> "C", d |-> "D", e |-> "E", f |-> "F",
     g |-> "G", h |-> "H", i |-> "I", j |-> "J", k |-> "K", l |-> "L",
     m |-> "M", n |-> "N", o |-> "O", p |-> "P", q |-> "Q", r |-> "R",
     s |-> "S", t |-> "T", u |-> "U", v |-> "V", w |-> "W", x |-> "X",
     y |-> "Y", z |-> "Z"]

LowerLetters == DOMAIN ToUpperMap

UpperChar(ch) == IF ch \in LowerLetters THEN ToUpperMap[ch] ELSE ch

\* str.upper()
Upper(t) == [i \in 1..Len(t) |-> UpperChar(t[i])]

\* str.lower()
LowerChar(ch) ==
    IF ch \in UpperLetters
    THEN CHOOSE lc \in LowerLetters : ToUpperMap[lc] = ch
    ELSE ch

Lower(t) == [i \in 1..Len(t) |-> LowerChar(t[i])]

IsSpace(ch) == ch = " "

RECURSIVE LStrip(_)
LStrip(t) ==
    IF t # <<>> /\ IsSpace(Head(t)) THEN LStrip(Tail(t)) ELSE t

RECURSIVE RStrip(_)
RStrip(t) ==
    IF t # <<>> /\ IsSpace(t[Len(t)]) THEN RStrip(SubSeq(t, 1, Len(t) - 1)) ELSE t

\* str.strip()
Strip(t) == RStrip(LStrip(t))

\* str.startswith(w)
StartsWith(t, w) == Len(t) >= Len(w) /\ SubSeq(t, 1, Len(w)) = w

\* the text after the first n characters
Drop(t, n) == SubSeq(t, n + 1, Len(t))

\* the pieces of t between occurrences of the character sep (str.split(sep))
RECURSIVE SplitOn(_, _)
SplitOn(t, sep) ==
    IF \A i \in 1..Len(t) : t[i] # sep
    THEN <<t>>
    ELSE LET p == CHOOSE i \in 1..Len(t) :
                      t[i] = sep /\ \A j \in 1..(i - 1) : t[j] # sep
         IN <<SubSeq(t, 1, p - 1)>> \o SplitOn(Drop(t, p), sep)

\* str.split(): the maximal runs of non-whitespace characters
SplitWhitespace(t) == SelectSeq(SplitOn(t, " "), LAMBDA piece : piece # <<>>)

AllIn(t, S) == \A i \in 1..Len(t) : t[i] \in S

\* t matches [^-]*
NoHyphen(t) == \A i \in 1..Len(t) : t[i] # "-"


(***************************************************************************)
(* The literals of the source, as character sequences.                     *)
(***************************************************************************)
W_MODIFICA == <<"M", "O", "D", "I", "F", "I", "C", "A">>
W_ELIMINA == <<"E", "L", "I", "M", "I", "N", "A">>
W_DELETE == <<"D", "E", "L", "E", "T", "E">>
W_CONFERMA == <<"C", "O", "N", "F", "E", "R", "M", "A">>
W_SQ == <<"S", "Q">>
W_VINTA == <<"V", "I", "N", "T", "A">>
W_VINCITA == <<"V", "I", "N", "C", "I", "T", "A">>
W_WIN == <<"W", "I", "N">>
W_W == <<"W">>
W_PERSA == <<"P", "E", "R", "S", "A">>
W_PERDITA == <<"P", "E", "R", "D", "I", "T", "A">>
W_LOSS == <<"L", "O", "S", "S">>
W_L == <<"L">>
W_PERSO == <<"P", "E", "R", "S", "O">>
W_RISULTATO == <<"R", "I", "S", "U", "L", "T", "A", "T", "O">>
W_QUOTA == <<"Q", "U", "O", "T", "A">>
W_IMPORTO == <<"I", "M", "P", "O", "R", "T", "O">>
W_ESITO == <<"E", "S", "I", "T", "O">>

\* the lists of the "Normalizza l'esito" blocks
WinTokens == {W_VINTA, W_VINCITA, W_WIN, W_W}

LossTokens == {W_PERSA, W_PERDITA, W_LOSS, W_L, W_PERSO}

\* the character classes of the patterns
AlnumUpper == UpperLetters \cup Digits

AlnumAny == AlnumUpper \cup LowerLetters

NumChars == Digits \cup {"."}

\* field_match.group(2).lower(): the key of the updates dict
FieldKey(w) ==
    IF w = W_RISULTATO THEN "risultato"
    ELSE IF w = W_QUOTA THEN "quota"
    ELSE IF w = W_IMPORTO THEN "importo"
    ELSE "esito"

(***************************************************************************)
(* float(): an optional sign, then digits with at most one point and at   *)
(* least one digit; anything else raises ValueError (ok = FALSE).  The    *)
(* value is in hundredths; the inputs of the model carry at most two      *)
(* decimals.  Exponents, inf, nan and digit-group underscores are not     *)
(* part of the modelled grammar.                                           *)
(***************************************************************************)
DigitVal(ch) == (CHOOSE i \in 1..Len(DigitChars) : DigitChars[i] = ch) - 1

RECURSIVE DecVal(_)
DecVal(t) ==
    IF t = <<>> THEN 0
    ELSE 10 * DecVal(SubSeq(t, 1, Len(t) - 1)) + DigitVal(t[Len(t)])

Hundredths(frac) ==
    (IF Len(frac) >= 1 THEN 10 * DigitVal(frac[1]) ELSE 0)
    + (IF Len(frac) >= 2 THEN DigitVal(frac[2]) ELSE 0)

ParseFloat(tok) ==
    LET signed == tok # <<>> /\ Head(tok) \in {"+", "-"}
        body == IF signed THEN Tail(tok) ELSE tok
        parts == SplitOn(body, ".")
        wellFormed == /\ AllIn(body, NumChars)
                      /\ Len(parts) <= 2
                      /\ \E i \in 1..Len(body) : body[i] \in Digits
        magnitude == 100 * DecVal(parts[1])
                     + (IF Len(parts) = 2 THEN Hundredths(parts[2]) ELSE 0)
    IN IF wellFormed
       THEN [ok |-> TRUE,
             val |-> IF signed /\ Head(tok) = "-" THEN 0 - magnitude ELSE magnitude]
       ELSE [ok |-> FALSE, val |-> 0]

\* a "Normalizza l'esito" block that takes every token as it is
NormalizeKeepsToken(tok) == [ok |-> TRUE, esito |-> tok]

\* a "Normalizza l'esito" block whose else branch takes the token as a loss
NormalizeDefaultsToLoss(tok) ==
    IF tok \in WinTokens THEN [ok |-> TRUE, esito |-> W_VINTA]
    ELSE [ok |-> TRUE, esito |-> W_PERSA]

\* one "Normalizza l'esito" block: the canonical token, or no result
NormalizeEsito(tok) ==
    IF tok \in WinTokens THEN [ok |-> TRUE, esito |-> W_VINTA]
    ELSE IF tok \in LossTokens THEN [ok |-> TRUE, esito |-> W_PERSA]
    ELSE [ok |-> FALSE, esito |-> <<>>]

\* calculate_winning_amount paying the importo back on a win
PaysImportoBack(quota, importo, esito) == IF esito = W_VINTA THEN importo ELSE 0

\* calculate_winning_amount paying whatever the esito
PaysWhateverEsito(quota, importo, esito) == quota * importo

calculate_winning_amount(quota, importo, esito) ==
    IF esito = W_VINTA THEN quota * importo ELSE 0

(***************************************************************************)
(* parse_modify_command.  All three patterns begin ^MODIFICA-([A-Z0-9]{8})-*)
(* and what follows that prefix decides the form.                          *)
(***************************************************************************)
NoUpdates == [fld \in {} |-> <<>>]

\* the full form with groups 3 and 4 taken in the wrong order
FullUpdatesSwapped(g, esito) ==
    [risultato |-> g[1], quota |-> g[3], importo |-> g[2], esito |-> esito]

\* the 'updates' dict of the full form, from the groups of full_pattern
FullUpdates(g, esito) ==
    [risultato |-> g[1], quota |-> g[2], importo |-> g[3], esito |-> esito]

NoModify == [ok |-> FALSE, quote_id |-> <<>>, updates |-> NoUpdates, tipo |-> "none"]

\* ^MODIFICA-([A-Z0-9]{8})- at the start of text_clean
ModifyPrefixMatch(tc) ==
    /\ Len(tc) >= Len(W_MODIFICA) + 10
    /\ StartsWith(tc, W_MODIFICA \o <<"-">>)
    /\ AllIn(SubSeq(tc, Len(W_MODIFICA) + 2, Len(W_MODIFICA) + 9), AlnumUpper)
    /\ tc[Len(W_MODIFICA) + 10] = "-"

ModifyId(tc) == SubSeq(tc, Len(W_MODIFICA) + 2, Len(W_MODIFICA) + 9)

ModifyRest(tc) == Drop(tc, Len(W_MODIFICA) + 10)

\* simple_pattern: ^MODIFICA-([A-Z0-9]{8})-([^-]+)$
simple_match(tc) ==
    /\ ModifyPrefixMatch(tc)
    /\ ModifyRest(tc) # <<>>
    /\ NoHyphen(ModifyRest(tc))

\* full_pattern: ^MODIFICA-([A-Z0-9]{8})-([^-]+)-([0-9.]+)-([0-9.]+)-([^-]+)$
full_match(tc) ==
    /\ ModifyPrefixMatch(tc)
    /\ LET g == SplitOn(ModifyRest(tc), "-")
       IN /\ Len(g) = 4
          /\ \A i \in 1..4 : g[i] # <<>>
          /\ AllIn(g[2], NumChars)
          /\ AllIn(g[3], NumChars)

\* the field name at the start of rest, when rest is (RISULTATO|QUOTA|IMPORTO|ESITO)=(.+)
FieldOf(rest) ==
    {w \in {W_RISULTATO, W_QUOTA, W_IMPORTO, W_ESITO} :
        /\ StartsWith(rest, w \o <<"=">>)
        /\ Len(rest) > Len(w) + 1}

\* field_pattern: ^MODIFICA-([A-Z0-9]{8})-(RISULTATO|QUOTA|IMPORTO|ESITO)=(.+)$
field_match(tc) == ModifyPrefixMatch(tc) /\ FieldOf(ModifyRest(tc)) # {}

parse_modify_command(text) ==
    LET text_clean == Upper(Strip(text))
        rest == ModifyRest(text_clean)
    IN IF simple_match(text_clean)
       THEN LET esito == NormalizeEsito(rest)
            IN IF esito.ok
               THEN [ok |-> TRUE, quote_id |-> ModifyId(text_clean),
                     updates |-> [fld \in {"esito"} |-> esito.esito],
                     tipo |-> "semplice"]
               ELSE NoModify
       ELSE IF full_match(text_clean)
       THEN LET g == SplitOn(rest, "-")
                esito == NormalizeEsito(g[4])
            IN IF esito.ok
               THEN [ok |-> TRUE, quote_id |-> ModifyId(text_clean),
                     updates |-> FullUpdates(g, esito.esito),
                     tipo |-> "completo"]
               ELSE NoModify
       ELSE IF field_match(text_clean)
       THEN LET w == CHOOSE fw \in FieldOf(rest) : TRUE
            IN [ok |-> TRUE, quote_id |-> ModifyId(text_clean),
                updates |-> [fld \in {FieldKey(w)} |-> Drop(rest, Len(w) + 1)],
                tipo |-> "campo_singolo"]
       ELSE NoModify

(***************************************************************************)
(* parse_delete_command: ^(?:ELIMINA|DELETE)-([A-Z0-9]{8})$ with           *)
(* re.IGNORECASE on text.strip(); the result is group(1).upper(), or None  *)
(* (ok = FALSE).                                                           *)
(***************************************************************************)
parse_delete_command(text) ==
    LET text_clean == Strip(text)
        folded == Upper(text_clean)
        kw == {w \in {W_ELIMINA, W_DELETE} : StartsWith(folded, w \o <<"-">>)}
    IN IF /\ kw # {}
          /\ \E w \in kw :
                /\ Len(text_clean) = Len(w) + 9
                /\ AllIn(Drop(text_clean, Len(w) + 1), AlnumAny)
       THEN [ok |-> TRUE,
             quote_id |-> Upper(SubSeq(text_clean, Len(text_clean) - 7, Len(text_clean)))]
       ELSE [ok |-> FALSE, quote_id |-> <<>>]

(***************************************************************************)
(* parse_superquote: ^SQ-([^-]+)-([0-9.]+)-([0-9.]+)-([^-]+)$ with         *)
(* re.IGNORECASE on text.strip().  float() raising inside the try block    *)
(* and an unknown esito both give None (ok = FALSE).  quote_id and data    *)
(* come from generate_quote_id() and datetime.now().                       *)
(***************************************************************************)
NoSuperquote ==
    [ok |-> FALSE, quote_id |-> <<>>, risultato |-> <<>>, quota |-> 0,
     importo |-> 0, vincita |-> 0, esito |-> <<>>, data |-> 0]

sq_match(tc) ==
    LET g == SplitOn(tc, "-")
    IN /\ Len(g) = 5
       /\ Upper(g[1]) = W_SQ
       /\ \A i \in 2..5 : g[i] # <<>>
       /\ AllIn(g[3], NumChars)
       /\ AllIn(g[4], NumChars)

parse_superquote(text, new_id, now) ==
    LET tc == Strip(text)
        g == SplitOn(tc, "-")
    IN IF sq_match(tc)
       THEN LET quota == ParseFloat(g[3])
                importo == ParseFloat(g[4])
                esito == NormalizeEsito(Upper(g[5]))
            IN IF quota.ok /\ importo.ok /\ esito.ok
               THEN [ok |-> TRUE, quote_id |-> new_id, risultato |-> Upper(g[2]),
                     quota |-> quota.val, importo |-> importo.val,
                     vincita |-> calculate_winning_amount(quota.val, importo.val,
                                                          esito.esito),
                     esito |-> esito.esito, data |-> now]
               ELSE NoSuperquote
       ELSE NoSuperquote

(***************************************************************************)
(* Inputs: the chats, the senders, the identifiers generate_quote_id can  *)
(* return, and the message texts.                                          *)
(***************************************************************************)
Chats == {"chatA", "chatB"}

\* The SQ branch reads the sender and not chat_data: one chat sends the SQ
\* messages.  The MODIFICA branch and the texts no branch takes read neither:
\* the other chat sends them.
AddChats == {"chatA"}

BystanderChats == {"chatB"}

Users == [chatA |-> [username |-> "anna", id |-> 1],
          chatB |-> [username |-> "bruno", id |-> 2]]

ID_A == <<"A", "1", "B", "2", "C", "3", "D", "4">>

ID_B == <<"0", "F", "0", "F", "0", "F", "0", "F">>

\* str(uuid.uuid4())[:8].upper() returns eight upper-case hexadecimal digits
IdPool == {ID_A, ID_B}

\* '-'.join(parts)
RECURSIVE Join(_)
Join(parts) ==
    IF Len(parts) = 1 THEN parts[1]
    ELSE parts[1] \o <<"-">> \o Join(Tail(parts))

T_1MILAN == <<"1", "M", "I", "L", "A", "N">>
T_over25 == <<"o", "v", "e", "r", "2", ".", "5">>
T_BOH == <<"B", "O", "H">>
T_2_00 == <<"2", ".", "0", "0">>
T_10_00 == <<"1", "0", ".", "0", "0">>
T_1_85 == <<"1", ".", "8", "5">>
T_15_00 == <<"1", "5", ".", "0", "0">>
T_1_2_3 == <<"1", ".", "2", ".", "3">>
T_2_50 == <<"2", ".", "5", "0">>
T_NEG_2_50 == <<"-">> \o T_2_50

\* the texts of the messages
SqLines ==
    {Join(<<W_SQ, T_1MILAN, T_2_00, T_10_00, W_VINTA>>),
     Join(<<W_SQ, T_1MILAN, T_1_2_3, T_10_00, W_W>>)}

ModifyLinesFor(id) ==
    {Join(<<W_MODIFICA, id, W_PERSA>>),
     Join(<<W_MODIFICA, id, T_1MILAN, T_2_00, T_10_00, W_VINTA>>),
     Join(<<W_MODIFICA, id, T_1MILAN, T_1_2_3, T_10_00, W_VINTA>>),
     Join(<<W_MODIFICA, id, W_QUOTA \o <<"=">> \o T_2_50>>),
     Join(<<W_MODIFICA, id, W_QUOTA \o <<"=">> \o T_NEG_2_50>>),
     Join(<<W_MODIFICA, id, W_RISULTATO \o <<"=">> \o T_1MILAN, T_BOH>>),
     Join(<<W_MODIFICA, id, W_ESITO \o <<"=">> \o T_1MILAN, T_BOH>>)}

\* every form for one id, the simple form for the other
ModifyLines == ModifyLinesFor(ID_A) \cup {Join(<<W_MODIFICA, ID_B, W_PERSA>>)}

DeleteLines == {Join(<<W_ELIMINA, id>>) : id \in IdPool} \cup {Join(<<W_ELIMINA, T_BOH>>)}

\* the text "CONFERMATO <id>": its first token starts with CONFERMA
LookalikeLine(id) == W_CONFERMA \o <<"T", "O", " ">> \o id

ConfirmLines ==
    {W_CONFERMA \o <<" ">> \o id : id \in IdPool} \cup {W_CONFERMA, LookalikeLine(ID_A)}

OtherLines == {T_BOH}

\* the texts "ELIMINA-<id>" and "CONFERMA <id>"
DeleteLine(id) == Join(<<W_ELIMINA, id>>)

ConfirmLine(id) == W_CONFERMA \o <<" ">> \o id

\* the full form that names the values the SQ line of the model stores
FullLine(id) == Join(<<W_MODIFICA, id, T_1MILAN, T_2_00, T_10_00, W_VINTA>>)

Lines == SqLines \cup ModifyLines \cup DeleteLines \cup ConfirmLines \cup OtherLines

\* float() of the numeric texts the messages carry, computed once
FloatOf ==
    [tok \in {T_2_00, T_10_00, T_1_85, T_15_00, T_1_2_3, T_2_50, T_NEG_2_50} |->
        ParseFloat(tok)]

Float(tok) == IF tok \in DOMAIN FloatOf THEN FloatOf[tok] ELSE ParseFloat(tok)

\* the parsers' results on the message texts, computed once
ParsedModify == [text \in ModifyLines |-> parse_modify_command(Strip(text))]

ParsedDelete == [text \in DeleteLines |-> parse_delete_command(Strip(text))]

ParsedSQ ==
    [text \in SqLines |->
        [new_id \in IdPool |->
            [clock \in 0..MaxClock |-> parse_superquote(Strip(text), new_id, clock)]]]

\* message_text.upper().split() of the CONFERMA branch
ConfirmParts == [text \in ConfirmLines |-> SplitWhitespace(Upper(Strip(text)))]

(***************************************************************************)
(* The collection: the documents in natural (insertion) order.  find_one, *)
(* update_one and delete_one act on the first document that matches.  A   *)
(* store call that raises (server unreachable, out of disk space) is the  *)
(* flag up = FALSE of that call.                                           *)
(***************************************************************************)
NoDoc ==
    [quote_id |-> <<>>, risultato |-> <<>>, quota |-> 0, importo |-> 0,
     vincita |-> 0, esito |-> <<>>, data |-> 0, data_modifica |-> <<>>,
     registrato_da |-> "", user_id |-> 0]

\* the index of the first document whose quote_id is qid, 0 when there is none
FirstIndex(coll, qid) ==
    IF \E i \in 1..Len(coll) : coll[i].quote_id = qid
    THEN CHOOSE i \in 1..Len(coll) :
            /\ coll[i].quote_id = qid
            /\ \A j \in 1..(i - 1) : coll[j].quote_id # qid
    ELSE 0

RemoveAt(coll, i) == SubSeq(coll, 1, i - 1) \o SubSeq(coll, i + 1, Len(coll))

\* find_superquote_by_id returning a result whether or not a document matched
FindWithoutMatch(coll, quote_id, up) ==
    LET i == FirstIndex(coll, Upper(quote_id))
    IN [found |-> up, doc |-> IF i # 0 THEN coll[i] ELSE NoDoc]

\* find_superquote_by_id returning a document for every id
FindReportsFound(coll, quote_id, up) == [found |-> up, doc |-> NoDoc]

find_superquote_by_id(coll, quote_id, up) ==
    LET i == FirstIndex(coll, Upper(quote_id))
    IN IF up /\ i # 0
       THEN [found |-> TRUE, doc |-> coll[i]]
       ELSE [found |-> FALSE, doc |-> NoDoc]

\* the document handle_message stores: parse_superquote's dict plus the sender
NewDoc(sq, user) ==
    [quote_id |-> sq.quote_id, risultato |-> sq.risultato, quota |-> sq.quota,
     importo |-> sq.importo, vincita |-> sq.vincita, esito |-> sq.esito,
     data |-> sq.data, data_modifica |-> <<>>,
     registrato_da |-> user.username, user_id |-> user.id]

\* save_superquote whose insert_one stores the document although it raised
SaveDespiteFailure(coll, doc, up) == [ok |-> up, coll |-> Append(coll, doc)]

save_superquote(coll, doc, up) ==
    IF up
    THEN [ok |-> TRUE, coll |-> Append(coll, doc)]
    ELSE [ok |-> FALSE, coll |-> coll]

\* delete_superquote removing only a document that was never modified
DeleteUnmodifiedOnly(coll, quote_id, up) ==
    LET i == FirstIndex(coll, Upper(quote_id))
    IN IF up /\ i # 0
       THEN [ok |-> TRUE,
             coll |-> IF coll[i].data_modifica = <<>> THEN RemoveAt(coll, i) ELSE coll]
       ELSE [ok |-> FALSE, coll |-> coll]

\* delete_superquote reporting a deletion that removed nothing
DeleteReportedOnly(coll, quote_id, up) ==
    [ok |-> up /\ FirstIndex(coll, Upper(quote_id)) # 0, coll |-> coll]

delete_superquote(coll, quote_id, up) ==
    LET i == FirstIndex(coll, Upper(quote_id))
    IN IF up /\ i # 0
       THEN [ok |-> TRUE, coll |-> RemoveAt(coll, i)]
       ELSE [ok |-> FALSE, coll |-> coll]

(***************************************************************************)
(* Reads of the whole collection.  find({}).sort('data', -1) returns the  *)
(* documents newest first; the order of documents of equal data is the    *)
(* store's choice, so a read is any of the orders it may return.  A read   *)
(* that raises returns the empty list.                                     *)
(***************************************************************************)
ReadCap == 2        \* stands for the limit(1000) of get_all_superquotes

\* the orders of the documents at the positions given: any of the newest
\* first, then the others likewise
RECURSIVE OrdersOf(_, _)
OrdersOf(coll, positions) ==
    IF positions = {}
    THEN {<<>>}
    ELSE UNION {{<<coll[i]>> \o rest : rest \in OrdersOf(coll, positions \ {i})} :
                    i \in {i \in positions :
                               \A j \in positions : coll[i].data >= coll[j].data}}

DescendingOrders(coll) == OrdersOf(coll, 1..Len(coll))

\* cursor.limit(limit)
Limit(seq, limit) == SubSeq(seq, 1, IF limit < Len(seq) THEN limit ELSE Len(seq))

get_all_superquotes(coll, up) ==
    IF up THEN {Limit(order, ReadCap) : order \in DescendingOrders(coll)} ELSE {<<>>}

get_recent_activity(coll, limit, up) ==
    IF up THEN {Limit(order, limit) : order \in DescendingOrders(coll)} ELSE {<<>>}

RECURSIVE SumSeq(_)
SumSeq(numbers) ==
    IF numbers = <<>> THEN 0 ELSE Head(numbers) + SumSeq(Tail(numbers))

\* the generator expressions of calculate_balance
Importi(superquotes) == [k \in 1..Len(superquotes) |-> superquotes[k].importo]

VinciteOf(superquotes, esito) ==
    [k \in 1..Len(superquotes) |->
        IF superquotes[k].esito = esito THEN superquotes[k].vincita ELSE 0]

ImportiOf(superquotes, esito) ==
    [k \in 1..Len(superquotes) |->
        IF superquotes[k].esito = esito THEN superquotes[k].importo ELSE 0]

CountOf(superquotes, esito) ==
    Cardinality({k \in 1..Len(superquotes) : superquotes[k].esito = esito})

\* the dict of the except branch of calculate_balance
ZeroBalance ==
    [saldo |-> 0, total_bet |-> 0, total_winnings |-> 0, total_losses |-> 0,
     wins |-> 0, losses |-> 0, total_bets |-> 0]

\* calculate_balance on the list its get_all_superquotes call returned.
\* importo is in hundredths and vincita in ten-thousandths of a euro, and
\* so are total_bet, total_losses and total_winnings; saldo is in
\* ten-thousandths.
calculate_balance(superquotes) ==
    LET total_bet == SumSeq(Importi(superquotes))
        total_winnings == SumSeq(VinciteOf(superquotes, W_VINTA))
        total_losses == SumSeq(ImportiOf(superquotes, W_PERSA))
    IN [saldo |-> total_winnings - total_bet * 100,
        total_bet |-> total_bet,
        total_winnings |-> total_winnings,
        total_losses |-> total_losses,
        wins |-> CountOf(superquotes, W_VINTA),
        losses |-> CountOf(superquotes, W_PERSA),
        total_bets |-> Len(superquotes)]

\* (vinte / total) * 100 as the format :.1f prints it, in tenths of a
\* percent, a half rounded to the even tenth
PercentualeSuccesso(vinte, total) ==
    LET q == (vinte * 1000) \div total
        r == (vinte * 1000) % total
    IN IF 2 * r > total \/ (2 * r = total /\ q % 2 = 1) THEN q + 1 ELSE q

\* sorted(superquotes, key=lambda x: x['data']): ascending and stable
RECURSIVE InsertByData(_, _)
InsertByData(sorted, sq) ==
    IF sorted = <<>>
    THEN <<sq>>
    ELSE IF Head(sorted).data <= sq.data
    THEN <<Head(sorted)>> \o InsertByData(Tail(sorted), sq)
    ELSE <<sq>> \o sorted

RECURSIVE SortedByData(_)
SortedByData(superquotes) ==
    IF superquotes = <<>>
    THEN <<>>
    ELSE InsertByData(SortedByData(SubSeq(superquotes, 1, Len(superquotes) - 1)),
                      superquotes[Len(superquotes)])

\* a series that stays at the starting balance
FlatProfit(superquotes_sorted, current_balance) ==
    [k \in 1..Len(superquotes_sorted) |-> current_balance]

\* the loop of generate_profit_graph: cumulative_profit after each document
RECURSIVE CumulativeProfit(_, _)
CumulativeProfit(superquotes_sorted, current_balance) ==
    IF superquotes_sorted = <<>>
    THEN <<>>
    ELSE LET sq == Head(superquotes_sorted)
             balance == IF sq.esito = W_VINTA
                        THEN current_balance + sq.vincita - sq.importo * 100
                        ELSE current_balance - sq.importo * 100
         IN <<balance>> \o CumulativeProfit(Tail(superquotes_sorted), balance)

(***************************************************************************)
(* update_superquote.  update_fields is built field by field; a float()   *)
(* that raises or an unknown esito ends the call with False before the    *)
(* write.  vincita is recomputed when quota, importo or esito is among    *)
(* the updates, from the new values of those and the existing values of   *)
(* the others.  The result is modified_count > 0: the $set changed the    *)
(* matched document.                                                       *)
(***************************************************************************)
Has(updates, fld) == fld \in DOMAIN updates

\* update_fields with vincita computed from the existing document alone
UpdateFieldsStaleVincita(existing, updates, now) ==
    LET Field(present, key, value) == IF present THEN key :> value ELSE NoUpdates
    IN Field(Has(updates, "risultato"), "risultato",
             IF Has(updates, "risultato") THEN updates["risultato"] ELSE <<>>)
       @@ Field(Has(updates, "quota"), "quota",
                IF Has(updates, "quota") THEN Float(updates["quota"]).val ELSE 0)
       @@ Field(Has(updates, "importo"), "importo",
                IF Has(updates, "importo") THEN Float(updates["importo"]).val ELSE 0)
       @@ Field(Has(updates, "esito"), "esito",
                IF Has(updates, "esito")
                THEN NormalizeEsito(Upper(updates["esito"])).esito ELSE <<>>)
       @@ Field(\E fld \in {"quota", "importo", "esito"} : Has(updates, fld),
                "vincita",
                calculate_winning_amount(existing.quota, existing.importo,
                                         existing.esito))
       @@ ("data_modifica" :> <<now>>)

\* update_fields, as the code builds it from the existing document
UpdateFields(existing, updates, now) ==
    LET final_quota == IF Has(updates, "quota")
                       THEN Float(updates["quota"]).val ELSE existing.quota
        final_importo == IF Has(updates, "importo")
                         THEN Float(updates["importo"]).val ELSE existing.importo
        final_esito == IF Has(updates, "esito")
                       THEN NormalizeEsito(Upper(updates["esito"])).esito
                       ELSE existing.esito
        Field(present, key, value) == IF present THEN key :> value ELSE NoUpdates
    IN Field(Has(updates, "risultato"), "risultato",
             IF Has(updates, "risultato") THEN updates["risultato"] ELSE <<>>)
       @@ Field(Has(updates, "quota"), "quota", final_quota)
       @@ Field(Has(updates, "importo"), "importo", final_importo)
       @@ Field(Has(updates, "esito"), "esito", final_esito)
       @@ Field(\E fld \in {"quota", "importo", "esito"} : Has(updates, fld),
                "vincita",
                calculate_winning_amount(final_quota, final_importo, final_esito))
       @@ ("data_modifica" :> <<now>>)

\* a $set that also moves data to the time of the modification
SetFieldsAndData(doc, update_fields) ==
    [key \in DOMAIN doc |->
        IF key \in DOMAIN update_fields THEN update_fields[key]
        ELSE IF key = "data" THEN update_fields["data_modifica"][1]
        ELSE doc[key]]

\* a $set that leaves data_modifica out
SetFieldsUnstamped(doc, update_fields) ==
    [key \in DOMAIN doc |->
        IF key \in DOMAIN update_fields \ {"data_modifica"}
        THEN update_fields[key] ELSE doc[key]]

\* the document after {"$set": update_fields}
SetFields(doc, update_fields) ==
    [key \in DOMAIN doc |->
        IF key \in DOMAIN update_fields THEN update_fields[key] ELSE doc[key]]

\* update_superquote converting nothing before the write
AcceptsAnyUpdates(updates) == TRUE

\* the conversions of update_superquote that can end it before the write
UpdatesAccepted(updates) ==
    /\ Has(updates, "quota") => Float(updates["quota"]).ok
    /\ Has(updates, "importo") => Float(updates["importo"]).ok
    /\ Has(updates, "esito") => NormalizeEsito(Upper(updates["esito"])).ok

update_superquote(coll, quote_id, updates, now, up_find, up_write) ==
    LET existing == find_superquote_by_id(coll, quote_id, up_find)
        i == FirstIndex(coll, Upper(quote_id))
    IN IF ~existing.found \/ ~UpdatesAccepted(updates) \/ ~up_write
       THEN [ok |-> FALSE, coll |-> coll]
       ELSE IF i = 0
       THEN [ok |-> FALSE, coll |-> coll]  \* update_one matched no document
       ELSE LET doc == SetFields(coll[i], UpdateFields(existing.doc, updates, now))
            IN [ok |-> doc # coll[i], coll |-> [coll EXCEPT ![i] = doc]]

(***************************************************************************)
(* What handle_message parses out of a text before it touches the store:  *)
(* the branch its dispatch takes, and the result of that branch's parser. *)
(***************************************************************************)
Branch(text) ==
    LET folded == Upper(Strip(text))
    IN IF StartsWith(folded, W_MODIFICA) THEN "MODIFICA"
       ELSE IF StartsWith(folded, W_ELIMINA) \/ StartsWith(folded, W_DELETE)
       THEN "ELIMINA"
       ELSE IF StartsWith(folded, W_CONFERMA) THEN "CONFERMA"
       ELSE IF StartsWith(folded, W_SQ) THEN "SQ"
       ELSE "none"

ParseMessage(text) ==
    LET message_text == Strip(text)
        branch == Branch(text)
    IN [branch |-> branch,
        modify |-> IF branch = "MODIFICA"
                   THEN parse_modify_command(message_text) ELSE NoModify,
        delete |-> IF branch = "ELIMINA"
                   THEN parse_delete_command(message_text)
                   ELSE [ok |-> FALSE, quote_id |-> <<>>],
        confirm |-> IF branch = "CONFERMA"
                    THEN SplitWhitespace(Upper(message_text)) ELSE <<>>,
        add |-> IF branch = "SQ"
                THEN parse_superquote(message_text, ID_A, 0) ELSE NoSuperquote]

(***************************************************************************)
(* The texts of the grammar: every text is assembled from pieces, by form.*)
(***************************************************************************)
FieldWords == {W_RISULTATO, W_QUOTA, W_IMPORTO, W_ESITO}

FieldValues ==
    {T_2_50, T_NEG_2_50, T_1_2_3, W_VINTA, Lower(W_PERSA), T_1MILAN,
     T_1MILAN \o <<"-">> \o T_BOH, <<"-">>}

OutcomeWords == WinTokens \cup LossTokens \cup {T_BOH, Lower(W_VINTA), Lower(W_L)}

NumberWords == {T_2_00, T_1_85, T_1_2_3, <<".">>, <<"0">>}

Sources ==
    [form : {"field"}, parts : IdPool \X FieldWords \X FieldValues]
    \cup [form : {"simple"}, parts : IdPool \X OutcomeWords]
    \cup [form : {"full"},
          parts : {ID_A} \X {T_1MILAN} \X NumberWords \X {T_10_00} \X {W_VINTA, T_BOH}]
    \cup [form : {"full"},
          parts : {ID_A} \X {T_1MILAN} \X {T_2_00} \X {T_10_00} \X OutcomeWords]
    \cup [form : {"add"},
          parts : {T_1MILAN, T_over25} \X NumberWords \X {T_10_00, T_1_2_3}
                  \X {W_VINTA, Lower(W_PERSA), T_BOH}]
    \cup [form : {"add"},
          parts : {T_1MILAN} \X {T_2_00} \X {T_10_00} \X OutcomeWords]
    \cup [form : {"delete"}, parts : {W_ELIMINA, Lower(W_DELETE)} \X {ID_A, T_BOH}]
    \cup [form : {"confirm"}, parts : {W_CONFERMA, Lower(W_CONFERMA)} \X {ID_A}]
    \cup [form : {"other"}, parts : {<<W_CONFERMA>>, <<T_BOH>>, <<W_MODIFICA>>}]

Assemble(source) ==
    LET parts == source.parts
    IN CASE source.form = "field" ->
                Join(<<W_MODIFICA, parts[1], parts[2] \o <<"=">> \o parts[3]>>)
         [] source.form \in {"simple", "full"} -> Join(<<W_MODIFICA>> \o parts)
         [] source.form = "add" -> Join(<<W_SQ>> \o parts)
         [] source.form = "delete" -> Join(parts)
         [] source.form = "confirm" -> parts[1] \o <<" ">> \o parts[2]
         [] OTHER -> parts[1]

(***************************************************************************)
(* State.                                                                   *)
(*   collection  the documents of the MongoDB collection                   *)
(*   chat_data   context.chat_data of each chat: whether the key           *)
(*               'pending_deletions' exists, and the dict under it         *)
(*   now         datetime.now(), in seconds                                *)
(*   msgs        the number of messages handled so far                     *)
(*   out         the last message handled: the branch of handle_message    *)
(*               that took it, its chat, the quote_id it named, the reply  *)
(*               sent, the updates of the update_superquote call that      *)
(*               returned True (none otherwise), and whether a deletion    *)
(*               removed a document that differs from the dict ELIMINA     *)
(*               had kept                                                  *)
(*   phase       history: per chat and id, whether the last accepted       *)
(*               deletion step was a request (a repeated one when the id   *)
(*               was pending already) or a confirmed deletion              *)
(*   src, cmd    the grammar on its own: the pieces a text was assembled     *)
(*               from, and what handle_message parses out of that text      *)
(*   view        the last report command handled: the lists it read, the   *)
(*               balance and the series it computed, and its reply         *)
(*   upd         update_superquote taken store call by store call: per     *)
(*               caller, whether its find_one has returned, and the        *)
(*               document and the updates it then holds                    *)
(***************************************************************************)
VARIABLES collection, chat_data, now, msgs, out, phase, src, cmd, view, upd

vars == <<collection, chat_data, now, msgs, out, phase, src, cmd, view, upd>>

bot_vars == <<collection, chat_data, now, msgs, out, phase, view, upd>>

grammar_vars == <<src, cmd, view, upd>>

EmptyDict == [key \in {} |-> NoDoc]

\* no call of update_superquote under way
NoCall == [pc |-> "idle", quote_id |-> <<>>, updates |-> NoUpdates, existing |-> NoDoc]

\* read_ok and count_ok record whether the command's own read and the read
\* of its calculate_balance call returned without raising
NoView ==
    [command |-> "none", reply |-> "none", superquotes |-> <<>>,
     balance_data |-> ZeroBalance, percentuale_successo |-> 0,
     cumulative_profit |-> <<>>, read_ok |-> TRUE, count_ok |-> TRUE]

\* the assignment replacing the whole dict
DictSetAlone(dict, key, value) == key :> value

\* the assignment keeping only the entries of other keys
DictSetFirstKept(dict, key, value) == dict @@ (key :> value)

DictSet(dict, key, value) == (key :> value) @@ dict

DictDel(dict, key) == [k \in (DOMAIN dict) \ {key} |-> dict[k]]

\* one dict shared by all chats instead of context.chat_data
SharedDataKey(chat) == "chatA"

\* context.chat_data: the dict of the chat the message came from
ChatDataKey(chat) == chat

\* len(parts) == 2 and 'pending_deletions' in context.chat_data
ConfermaWellFormed(parts, data) == Len(parts) = 2 /\ data.has_pending

\* the CONFERMA branch without the test of the pending entry
PendingNotChecked(data, quote_id) == TRUE

\* quote_id in context.chat_data['pending_deletions']
PendingHas(data, quote_id) == quote_id \in DOMAIN data.pending_deletions

\* The collection outlives the process: at start it is empty or holds the
\* document that an earlier SQ message stored.
InitialDocs ==
    {NewDoc(ParsedSQ[Join(<<W_SQ, T_1MILAN, T_2_00, T_10_00, W_VINTA>>)][ID_A][0],
            Users["chatA"])}

Init ==
    /\ collection \in {<<>>} \cup {<<doc>> : doc \in InitialDocs}
    /\ chat_data = [chat \in Chats |->
                        [has_pending |-> FALSE, pending_deletions |-> EmptyDict]]
    /\ now = 0
    /\ msgs = 0
    /\ out = [branch |-> "none", chat |-> "none", quote_id |-> <<>>, reply |-> "none",
              updates |-> NoUpdates, differs |-> FALSE]
    /\ phase = [chat \in Chats |-> [id \in IdPool |-> "none"]]
    /\ src = [form |-> "other", parts |-> <<<<>>>>]
    /\ cmd = ParseMessage(<<>>)
    /\ view = NoView
    /\ upd = [chat \in Chats |-> NoCall]

Reply(branch, chat, quote_id, reply) ==
    out' = [branch |-> branch, chat |-> chat, quote_id |-> quote_id, reply |-> reply,
            updates |-> NoUpdates, differs |-> FALSE]

BranchOf == [text \in Lines |-> Branch(text)]

\* the clock advances
Tick ==
    /\ now < MaxClock
    /\ now' = now + 1
    /\ UNCHANGED <<collection, chat_data, msgs, out, phase, src, cmd, view, upd>>

(***************************************************************************)
(* handle_message, MODIFICA branch.  Its four store calls, in order, are  *)
(* the handler's find, update_superquote's find and update_one, and the   *)
(* find that reloads the document; fail_at is the call that raises (0:    *)
(* none).  A reload that returns None makes updated['quote_id'] raise:    *)
(* the handler ends without a reply.                                       *)
(***************************************************************************)
ModificaResult(coll, text, clock, fail_at) ==
    LET modify_data == ParsedModify[text]
        existing == find_superquote_by_id(coll, modify_data.quote_id, fail_at # 1)
        result == update_superquote(coll, modify_data.quote_id, modify_data.updates,
                                    clock, fail_at # 2, fail_at # 3)
        updated == find_superquote_by_id(result.coll, modify_data.quote_id,
                                         fail_at # 4)
    IN IF ~modify_data.ok
       THEN [coll |-> coll, quote_id |-> <<>>, reply |-> "modify_format", updated |-> FALSE]
       ELSE IF ~existing.found
       THEN [coll |-> coll, quote_id |-> modify_data.quote_id, reply |-> "not_found", updated |-> FALSE]
       ELSE IF ~result.ok
       THEN [coll |-> result.coll, quote_id |-> modify_data.quote_id,
             reply |-> "modify_error", updated |-> FALSE]
       ELSE IF ~updated.found
       THEN [coll |-> result.coll, quote_id |-> modify_data.quote_id,
             reply |-> "exception", updated |-> TRUE]
       ELSE [coll |-> result.coll, quote_id |-> modify_data.quote_id,
             reply |-> "modified", updated |-> TRUE]

HandleModifica(chat, text, fail_at) ==
    /\ msgs < MaxMsgs
    /\ BranchOf[text] = "MODIFICA"
    /\ LET r == ModificaResult(collection, text, now, fail_at)
       IN /\ collection' = r.coll
          /\ out' = [branch |-> "MODIFICA", chat |-> chat, quote_id |-> r.quote_id,
                      reply |-> r.reply,
                      updates |-> IF r.updated THEN ParsedModify[text].updates
                                  ELSE NoUpdates,
                      differs |-> FALSE]
    /\ msgs' = msgs + 1
    /\ UNCHANGED <<chat_data, now, phase, src, cmd, view, upd>>

(***************************************************************************)
(* handle_message, ELIMINA branch: the document found is kept under its   *)
(* id in the chat's pending_deletions.                                     *)
(***************************************************************************)
\* an ELIMINA branch that deletes at once, with no confirmation kept
EliminaDeletesAtOnce(chat, text, up) ==
    /\ msgs < MaxMsgs
    /\ BranchOf[text] = "ELIMINA"
    /\ LET quote_id == ParsedDelete[text]
           result == delete_superquote(collection, quote_id.quote_id, up)
       IN IF ~quote_id.ok
          THEN /\ Reply("ELIMINA", chat, <<>>, "delete_format")
               /\ UNCHANGED collection
          ELSE /\ collection' = result.coll
               /\ Reply("ELIMINA", chat, quote_id.quote_id,
                        IF result.ok THEN "deleted" ELSE "not_found")
    /\ msgs' = msgs + 1
    /\ UNCHANGED <<chat_data, phase, now, src, cmd, view, upd>>

HandleElimina(chat, text, up) ==
    /\ msgs < MaxMsgs
    /\ BranchOf[text] = "ELIMINA"
    /\ LET quote_id == ParsedDelete[text]
           existing == find_superquote_by_id(collection, quote_id.quote_id, up)
           key == ChatDataKey(chat)
       IN IF ~quote_id.ok
          THEN /\ Reply("ELIMINA", chat, <<>>, "delete_format")
               /\ UNCHANGED <<chat_data, phase>>
          ELSE IF ~existing.found
          THEN /\ Reply("ELIMINA", chat, quote_id.quote_id, "not_found")
               /\ UNCHANGED <<chat_data, phase>>
          ELSE /\ chat_data' =
                    [chat_data EXCEPT ![key] =
                        [has_pending |-> TRUE,
                         pending_deletions |->
                            DictSet(@.pending_deletions, quote_id.quote_id,
                                    existing.doc)]]
               /\ phase' = [phase EXCEPT ![chat][quote_id.quote_id] =
                                IF PendingHas(chat_data[key], quote_id.quote_id)
                                THEN "rerequested" ELSE "requested"]
               /\ Reply("ELIMINA", chat, quote_id.quote_id, "confirm_prompt")
    /\ msgs' = msgs + 1
    /\ UNCHANGED <<collection, now, src, cmd, view, upd>>

(***************************************************************************)
(* handle_message, CONFERMA branch: parts = message_text.upper().split().  *)
(* The pending entry is deleted only after delete_superquote returned     *)
(* True.                                                                   *)
(***************************************************************************)
\* the pending entry never deleted
PendingKept(pending, quote_id, success) == pending

\* the dict that ELIMINA kept under quote_id is not the document now stored
\* under it
StaleSnapshot(coll, data, quote_id) ==
    LET i == FirstIndex(coll, Upper(quote_id))
    IN i # 0 /\ data.pending_deletions[quote_id] # coll[i]

ConfermaPending(pending, quote_id, success) ==
    IF success THEN DictDel(pending, quote_id) ELSE pending

HandleConferma(chat, text, up) ==
    /\ msgs < MaxMsgs
    /\ BranchOf[text] = "CONFERMA"
    /\ LET parts == ConfirmParts[text]
           key == ChatDataKey(chat)
           data == chat_data[key]
       IN IF ~ConfermaWellFormed(parts, data)
          THEN /\ Reply("CONFERMA", chat, <<>>, "confirm_format")
               /\ UNCHANGED <<collection, chat_data, phase>>
          ELSE IF ~PendingHas(data, parts[2])
          THEN /\ Reply("CONFERMA", chat, parts[2], "confirm_expired")
               /\ UNCHANGED <<collection, chat_data, phase>>
          ELSE LET result == delete_superquote(collection, parts[2], up)
               IN /\ collection' = result.coll
                  /\ chat_data' =
                        [chat_data EXCEPT ![key].pending_deletions =
                            ConfermaPending(@, parts[2], result.ok)]
                  /\ phase' = IF result.ok /\ parts[2] \in IdPool
                              THEN [phase EXCEPT ![chat][parts[2]] = "deleted"]
                              ELSE phase
                  /\ out' = [branch |-> "CONFERMA", chat |-> chat,
                              quote_id |-> parts[2],
                              reply |-> IF result.ok THEN "deleted" ELSE "delete_error",
                              updates |-> NoUpdates,
                              differs |-> result.ok /\ StaleSnapshot(collection, data, parts[2])]
    /\ msgs' = msgs + 1
    /\ UNCHANGED <<now, src, cmd, view, upd>>

(***************************************************************************)
(* handle_message, SQ branch: parse_superquote, then save_superquote of   *)
(* the parsed dict with the sender's name and id.                          *)
(***************************************************************************)
HandleSQ(chat, text, new_id, up) ==
    /\ msgs < MaxMsgs
    /\ BranchOf[text] = "SQ"
    /\ LET superquote == ParsedSQ[text][new_id][now]
           result == save_superquote(collection, NewDoc(superquote, Users[chat]), up)
       IN IF ~superquote.ok
          THEN /\ Reply("SQ", chat, <<>>, "add_format")
               /\ UNCHANGED collection
          ELSE /\ Len(collection) < MaxRecords
               /\ collection' = result.coll
               /\ Reply("SQ", chat, superquote.quote_id,
                        IF result.ok THEN "added" ELSE "save_error")
    /\ msgs' = msgs + 1
    /\ UNCHANGED <<chat_data, now, phase, src, cmd, view, upd>>

\* a text that starts with none of the keywords: no branch of handle_message takes it
HandleOther(chat, text) ==
    /\ msgs < MaxMsgs
    /\ BranchOf[text] = "none"
    /\ Reply("none", chat, <<>>, "none")
    /\ msgs' = msgs + 1
    /\ UNCHANGED <<collection, chat_data, now, phase, src, cmd, view, upd>>

Next ==
    \/ Tick
    \/ \E chat \in BystanderChats, text \in ModifyLines, fail_at \in 0..4 :
            HandleModifica(chat, text, fail_at)
    \/ \E chat \in Chats, text \in DeleteLines, up \in BOOLEAN :
            HandleElimina(chat, text, up)
    \/ \E chat \in Chats, text \in ConfirmLines, up \in BOOLEAN :
            HandleConferma(chat, text, up)
    \/ \E chat \in AddChats, text \in SqLines, new_id \in IdPool, up \in BOOLEAN :
            HandleSQ(chat, text, new_id, up)
    \/ \E chat \in BystanderChats, text \in OtherLines : HandleOther(chat, text)

Spec == Init /\ [][Next]_vars

(***************************************************************************)
(* The grammar on its own: a text is assembled and parsed.                 *)
(***************************************************************************)
ReadText(source) ==
    /\ src' = source
    /\ cmd' = ParseMessage(Assemble(source))
    /\ UNCHANGED bot_vars

NextGrammar == \E source \in Sources : ReadText(source)

SpecGrammar == Init /\ [][NextGrammar]_vars

(***************************************************************************)
(* The reports: show_stats, show_list and generate_profit_graph read the   *)
(* collection and compute the balance and the series.  The collection      *)
(* outlives the process: at start it holds up to MaxStored documents that  *)
(* earlier SQ messages stored, each at the clock value of its message.     *)
(***************************************************************************)
StoredLines ==
    {Join(<<W_SQ, T_1MILAN, T_2_00, T_10_00, W_VINTA>>),
     Join(<<W_SQ, T_over25, T_1_85, T_15_00, W_PERSA>>)}

\* the id generate_quote_id returned for the k-th of them
StoredId(k) == [i \in 1..8 |-> IF i = 8 THEN DigitChars[k + 1] ELSE "E"]

StoredDoc ==
    [text \in StoredLines |->
        [k \in 1..(MaxStored + 1) |->
            [clock \in 0..MaxClock |->
                NewDoc(parse_superquote(Strip(text), StoredId(k), clock),
                       Users["chatA"])]]]

InitialStores ==
    UNION {{[k \in 1..n |-> StoredDoc[texts[k]][k][clocks[k]]] :
                texts \in [1..n -> StoredLines],
                clocks \in {c \in [1..n -> 0..MaxClock] :
                                \A k \in 1..(n - 1) : c[k] <= c[k + 1]}} :
           n \in 0..MaxStored}

InitBalance ==
    /\ collection \in InitialStores
    /\ now \in 0..MaxClock
    /\ \A k \in 1..Len(collection) : collection[k].data <= now
    /\ chat_data = [chat \in Chats |->
                        [has_pending |-> FALSE, pending_deletions |-> EmptyDict]]
    /\ msgs = 0
    /\ out = [branch |-> "none", chat |-> "none", quote_id |-> <<>>, reply |-> "none",
              updates |-> NoUpdates, differs |-> FALSE]
    /\ phase = [chat \in Chats |-> [id \in IdPool |-> "none"]]
    /\ src = [form |-> "other", parts |-> <<<<>>>>]
    /\ cmd = ParseMessage(<<>>)
    /\ view = NoView
    /\ upd = [chat \in Chats |-> NoCall]

\* show_stats: one read of its own, one inside calculate_balance
ShowStats(up1, up2) ==
    /\ \E superquotes \in get_all_superquotes(collection, up1),
          counted \in get_all_superquotes(collection, up2) :
            LET balance_data == calculate_balance(counted)
                read == [NoView EXCEPT !.command = "stats", !.read_ok = up1,
                                       !.count_ok = up2,
                                       !.balance_data = balance_data]
            IN view' = IF superquotes = <<>>
                       THEN [read EXCEPT !.reply = "empty"]
                       ELSE [read EXCEPT
                                !.reply = "stats",
                                !.superquotes = superquotes,
                                !.percentuale_successo =
                                    IF balance_data.total_bets > 0
                                    THEN PercentualeSuccesso(balance_data.wins,
                                                             balance_data.total_bets)
                                    ELSE 0]
    /\ UNCHANGED <<collection, chat_data, now, msgs, out, phase, src, cmd, upd>>

\* the limits the argument of /lista gives: one document, or all of them
ListLimits == {1, MaxStored}

\* show_list with the limit its argument gives
ShowList(limit, up) ==
    /\ \E superquotes \in get_recent_activity(collection, limit, up) :
            view' = [NoView EXCEPT !.command = "list", !.read_ok = up,
                                   !.reply = IF superquotes = <<>> THEN "empty" ELSE "list",
                                   !.superquotes = superquotes]
    /\ UNCHANGED <<collection, chat_data, now, msgs, out, phase, src, cmd, upd>>

\* generate_profit_graph: the series from its own read, the caption from
\* calculate_balance, not reached when the read returned nothing;
\* wins / total_bets of the caption raises when the read of
\* calculate_balance returned nothing, and the except branch replies the
\* error
GenerateProfitGraph(up1, up2) ==
    /\ \E superquotes \in get_all_superquotes(collection, up1),
          counted \in get_all_superquotes(collection, up2) :
            LET balance_data == calculate_balance(counted)
                cumulative_profit == CumulativeProfit(SortedByData(superquotes), 0)
                read == [NoView EXCEPT !.command = "grafico", !.read_ok = up1]
            IN view' = IF superquotes = <<>>
                       THEN [read EXCEPT !.reply = "empty"]
                       ELSE IF balance_data.total_bets = 0
                       THEN [read EXCEPT !.reply = "graph_error",
                                         !.count_ok = up2,
                                         !.superquotes = superquotes,
                                         !.cumulative_profit = cumulative_profit]
                       ELSE [read EXCEPT
                                !.reply = "graph",
                                !.count_ok = up2,
                                !.superquotes = superquotes,
                                !.balance_data = balance_data,
                                !.percentuale_successo =
                                    PercentualeSuccesso(balance_data.wins,
                                                        balance_data.total_bets),
                                !.cumulative_profit = cumulative_profit]
    /\ UNCHANGED <<collection, chat_data, now, msgs, out, phase, src, cmd, upd>>

\* A behaviour follows the bot up to its first report: the clock advances
\* and SQ messages arrive, then one report command is handled.
NextBalance ==
    /\ view = NoView
    /\ \/ Tick
       \/ \E chat \in AddChats, text \in SqLines, new_id \in IdPool, up \in BOOLEAN :
               HandleSQ(chat, text, new_id, up)
       \/ \E up1, up2 \in BOOLEAN : ShowStats(up1, up2)
       \/ \E limit \in ListLimits, up \in BOOLEAN : ShowList(limit, up)
       \/ \E up1, up2 \in BOOLEAN : GenerateProfitGraph(up1, up2)

SpecBalance == InitBalance /\ [][NextBalance]_vars

\* A behaviour follows the bot through SQ, MODIFICA, ELIMINA and CONFERMA
\* messages that the store serves, up to its first /stats or /grafico.
NextSeries ==
    /\ view = NoView
    /\ \/ Tick
       \/ \E chat \in AddChats, text \in SqLines, new_id \in IdPool :
               HandleSQ(chat, text, new_id, TRUE)
       \/ \E chat \in BystanderChats, text \in ModifyLines :
               HandleModifica(chat, text, 0)
       \/ \E chat \in Chats, text \in DeleteLines : HandleElimina(chat, text, TRUE)
       \/ \E chat \in Chats, text \in ConfirmLines : HandleConferma(chat, text, TRUE)
       \/ \E up1, up2 \in BOOLEAN : ShowStats(up1, up2)
       \/ \E up1, up2 \in BOOLEAN : GenerateProfitGraph(up1, up2)

SpecSeries == Init /\ [][NextSeries]_vars

(***************************************************************************)
(* update_superquote store call by store call: its find_one and its        *)
(* update_one are two requests to the store, and between them the store    *)
(* serves the requests of other callers of the same collection.  One       *)
(* document is stored; each caller runs update_superquote for it.          *)
(***************************************************************************)
RaceLines ==
    {Join(<<W_MODIFICA, ID_A, W_VINTA>>),
     Join(<<W_MODIFICA, ID_A, W_PERSA>>),
     Join(<<W_MODIFICA, ID_A, T_1MILAN, T_2_00, T_10_00, W_PERSA>>),
     Join(<<W_MODIFICA, ID_A, T_1MILAN, T_2_00, T_10_00, W_VINTA>>)}

ParsedRace == [text \in RaceLines |-> parse_modify_command(Strip(text))]

InitRace ==
    /\ collection \in {<<NewDoc(parse_superquote(Strip(text), ID_A, 0), Users["chatA"])>> :
                            text \in StoredLines}
    /\ chat_data = [chat \in Chats |->
                        [has_pending |-> FALSE, pending_deletions |-> EmptyDict]]
    /\ now = 0
    /\ msgs = 0
    /\ out = [branch |-> "none", chat |-> "none", quote_id |-> <<>>, reply |-> "none",
              updates |-> NoUpdates, differs |-> FALSE]
    /\ phase = [chat \in Chats |-> [id \in IdPool |-> "none"]]
    /\ src = [form |-> "other", parts |-> <<<<>>>>]
    /\ cmd = ParseMessage(<<>>)
    /\ view = NoView
    /\ upd = [chat \in Chats |-> NoCall]

\* update_superquote up to the return of its find_one
UpdateFind(chat, text, up) ==
    /\ msgs < MaxMsgs
    /\ upd[chat].pc = "idle"
    /\ ParsedRace[text].ok
    /\ LET existing == find_superquote_by_id(collection, ParsedRace[text].quote_id, up)
       IN upd' = [upd EXCEPT ![chat] =
                    IF existing.found
                    THEN [pc |-> "found", quote_id |-> ParsedRace[text].quote_id,
                          updates |-> ParsedRace[text].updates,
                          existing |-> existing.doc]
                    ELSE NoCall]
    /\ msgs' = msgs + 1
    /\ UNCHANGED <<collection, chat_data, now, out, phase, src, cmd, view>>

\* the rest of update_superquote: update_fields from the document found,
\* then update_one
UpdateWrite(chat, up) ==
    /\ upd[chat].pc = "found"
    /\ LET i == FirstIndex(collection, Upper(upd[chat].quote_id))
       IN collection' =
            IF UpdatesAccepted(upd[chat].updates) /\ up /\ i # 0
            THEN [collection EXCEPT ![i] =
                    SetFields(collection[i],
                              UpdateFields(upd[chat].existing, upd[chat].updates, now))]
            ELSE collection
    /\ upd' = [upd EXCEPT ![chat] = NoCall]
    /\ UNCHANGED <<chat_data, now, msgs, out, phase, src, cmd, view>>

NextRace ==
    \/ Tick
    \/ \E chat \in Chats, text \in RaceLines, up \in BOOLEAN : UpdateFind(chat, text, up)
    \/ \E chat \in Chats, up \in BOOLEAN : UpdateWrite(chat, up)

SpecRace == InitRace /\ [][NextRace]_vars

(***************************************************************************)
(* Properties of the deletion protocol.                                    *)
(***************************************************************************)
Pending(data, chat) == data[chat].pending_deletions

\* the step handles that message of that chat
ModificaStep(chat, text, fail_at) ==
    /\ msgs' = msgs + 1
    /\ out'.branch = "MODIFICA"
    /\ out'.chat = chat
    /\ HandleModifica(chat, text, fail_at)

EliminaStep(chat, text, up) ==
    /\ msgs' = msgs + 1
    /\ out'.branch = "ELIMINA"
    /\ out'.chat = chat
    /\ HandleElimina(chat, text, up)

ConfermaStep(chat, text, up) ==
    /\ msgs' = msgs + 1
    /\ out'.branch = "CONFERMA"
    /\ out'.chat = chat
    /\ HandleConferma(chat, text, up)

\* C1: a document leaves the collection only in a step that handles
\* "CONFERMA <id>" in a chat whose pending_deletions holds id, put there by
\* an ELIMINA-<id> that chat had accepted, and the document removed is the
\* first one stored under id; a CONFERMA in a chat that never had an
\* ELIMINA accepted for the id it names (or that names no id) removes
\* nothing and is answered with one of the two error replies.
DeleteOnlyByConfirmedRequest ==
    [][/\ Len(collection') < Len(collection) =>
            \E chat \in Chats, id \in IdPool, up \in BOOLEAN :
                /\ ConfermaStep(chat, ConfirmLine(id), up)
                /\ id \in DOMAIN Pending(chat_data, chat)
                /\ phase[chat][id] \in {"requested", "rerequested"}
                /\ out'.reply = "deleted"
                /\ collection' = RemoveAt(collection, FirstIndex(collection, id))
       /\ \A chat \in Chats, text \in ConfirmLines, up \in BOOLEAN :
            (/\ ConfermaStep(chat, text, up)
             /\ \/ Len(ConfirmParts[text]) # 2
                \/ phase[chat][ConfirmParts[text][2]] = "none")
            => /\ collection' = collection
               /\ out'.reply \in {"confirm_format", "confirm_expired"}
      ]_vars

\* C1 witness: one chat has deleted a document by request and confirmation,
\* and a CONFERMA in the other chat, which requested nothing, was refused.
DeletedThenRefusedElsewhere ==
    \E chat \in Chats, id \in IdPool :
        /\ phase[chat][id] = "deleted"
        /\ out.branch = "CONFERMA"
        /\ out.chat \in Chats \ {chat}
        /\ \A other \in IdPool : phase[out.chat][other] = "none"
        /\ out.reply = "confirm_format"

\* C3: every step that handles "CONFERMA <id>" for an id in the chat's
\* pending_deletions leaves id out of that chat's pending_deletions,
\* whether delete_superquote returned True or False.
ConfirmAlwaysClearsPending ==
    [][\A chat \in Chats, id \in IdPool, up \in BOOLEAN :
            (/\ ConfermaStep(chat, ConfirmLine(id), up)
             /\ id \in DOMAIN Pending(chat_data, chat))
            => id \notin DOMAIN Pending(chat_data', chat)
      ]_vars

\* C4: after ELIMINA-<id> and a "CONFERMA <id>" that deleted the document,
\* a further "CONFERMA <id>" in the same chat, with no ELIMINA-<id> accepted
\* there in between, is answered "conferma scaduta" and leaves the
\* collection as it was.
SecondConfirmRefused ==
    [][\A chat \in Chats, id \in IdPool, up \in BOOLEAN :
            (/\ ConfermaStep(chat, ConfirmLine(id), up)
             /\ phase[chat][id] = "deleted")
            => /\ out'.reply = "confirm_expired"
               /\ collection' = collection
      ]_vars

\* C4 witness: the second confirmation has been handled and refused.
SecondConfirmHandled ==
    /\ out.branch = "CONFERMA"
    /\ out.reply = "confirm_expired"
    /\ out.chat \in Chats
    /\ out.quote_id \in IdPool
    /\ phase[out.chat][out.quote_id] = "deleted"

\* C9: context.chat_data of a chat changes only in a step that handles an
\* ELIMINA or a CONFERMA message of that chat, and a "CONFERMA <id>" in a
\* chat whose own pending_deletions lacks id leaves the collection as it
\* was, whatever the other chats hold.
PendingChangesOnlyInOwnChat ==
    [][/\ \A chat \in Chats :
            chat_data'[chat] # chat_data[chat] =>
                \/ \E text \in DeleteLines, up \in BOOLEAN :
                        EliminaStep(chat, text, up)
                \/ \E text \in ConfirmLines, up \in BOOLEAN :
                        ConfermaStep(chat, text, up)
       /\ \A chat \in Chats, id \in IdPool, up \in BOOLEAN :
            (/\ ConfermaStep(chat, ConfirmLine(id), up)
             /\ id \notin DOMAIN Pending(chat_data, chat))
            => collection' = collection
      ]_vars

\* C9 witness: id is pending in one chat, the other chat has sent
\* "CONFERMA <id>" and was refused, and the document is still stored.
ConfirmFromOtherChatRefused ==
    \E chat \in Chats, id \in IdPool :
        /\ id \in DOMAIN Pending(chat_data, chat)
        /\ out.branch = "CONFERMA"
        /\ out.chat \in Chats \ {chat}
        /\ out.reply \in {"confirm_format", "confirm_expired"}
        /\ FirstIndex(collection, id) # 0

\* C10: a step that handles ELIMINA-<id> puts under id, in the chat's
\* pending_deletions, the first document stored under id whenever there is
\* one and the find answers, and changes nothing else of chat_data; with no
\* document under id it replies "non trovato" and leaves chat_data as it
\* was; chat_data changes only if a document is stored under id.  (A find
\* that raises is answered as "non trovato" too, with chat_data unchanged.)
RequestAddsPendingIffFound ==
    [][\A chat \in Chats, text \in DeleteLines, up \in BOOLEAN :
            (EliminaStep(chat, text, up) /\ ParsedDelete[text].ok) =>
                LET id == ParsedDelete[text].quote_id
                    i == FirstIndex(collection, id)
                    before == Pending(chat_data, chat)
                    after == Pending(chat_data', chat)
                IN /\ (i # 0 /\ up) =>
                        /\ out'.reply = "confirm_prompt"
                        /\ DOMAIN after = DOMAIN before \cup {id}
                        /\ after[id] = collection[i]
                        /\ \A k \in DOMAIN before \ {id} : after[k] = before[k]
                        /\ \A other \in Chats \ {chat} :
                                chat_data'[other] = chat_data[other]
                   /\ i = 0 =>
                        /\ out'.reply = "not_found"
                        /\ chat_data' = chat_data
                   /\ chat_data' # chat_data => i # 0
                   /\ ~up => (out'.reply = "not_found" /\ chat_data' = chat_data)
      ]_vars

\* C10 witness: a request was accepted and the entry holds the stored document.
RequestAccepted ==
    /\ out.branch = "ELIMINA"
    /\ out.reply = "confirm_prompt"
    /\ out.chat \in Chats
    /\ out.quote_id \in DOMAIN Pending(chat_data, out.chat)
    /\ FirstIndex(collection, out.quote_id) # 0
    /\ Pending(chat_data, out.chat)[out.quote_id]
            = collection[FirstIndex(collection, out.quote_id)]

\* C11: when a document is stored under id and id is pending in a chat
\* after an accepted ELIMINA-<id> of that chat, a step that handles
\* "CONFERMA <id>" there with the store answering replies "eliminata",
\* removes the document stored under id (the first one, all others kept)
\* and leaves id out of the chat's pending_deletions; with one document
\* under id, none is stored under id afterwards.
RequestThenConfirmDeletes ==
    [][\A chat \in Chats, id \in IdPool :
            LET i == FirstIndex(collection, id)
            IN (/\ i # 0
                /\ phase[chat][id] \in {"requested", "rerequested"}
                /\ ConfermaStep(chat, ConfirmLine(id), TRUE)) =>
                    /\ out'.reply = "deleted"
                    /\ collection' = RemoveAt(collection, i)
                    /\ id \notin DOMAIN Pending(chat_data', chat)
                    /\ (\A j \in 1..Len(collection) :
                            collection[j].quote_id = id => j = i)
                        => FirstIndex(collection', id) = 0
      ]_vars

\* C11 witness: request and confirmation done: the reply is "eliminata",
\* no document is stored under the id and the id is not pending.
RequestThenConfirmDone ==
    /\ out.branch = "CONFERMA"
    /\ out.reply = "deleted"
    /\ out.chat \in Chats
    /\ FirstIndex(collection, out.quote_id) = 0
    /\ out.quote_id \notin DOMAIN Pending(chat_data, out.chat)

\* C12: a step that accepts ELIMINA-<id> in a chat where id is pending
\* already keeps the keys of pending_deletions as they were (one entry
\* for id), and the entry holds the document as stored at this request;
\* a "CONFERMA <id>" that then deletes leaves no entry for id.
RepeatedRequestOneEntry ==
    [][\A chat \in Chats, id \in IdPool :
        /\ \A up \in BOOLEAN :
            (/\ id \in DOMAIN Pending(chat_data, chat)
             /\ EliminaStep(chat, DeleteLine(id), up)
             /\ out'.reply = "confirm_prompt") =>
                /\ DOMAIN Pending(chat_data', chat) = DOMAIN Pending(chat_data, chat)
                /\ Pending(chat_data', chat)[id]
                        = collection[FirstIndex(collection, id)]
                /\ \A k \in DOMAIN Pending(chat_data, chat) \ {id} :
                        Pending(chat_data', chat)[k] = Pending(chat_data, chat)[k]
                /\ phase'[chat][id] = "rerequested"
        /\ \A up \in BOOLEAN :
            (/\ phase[chat][id] = "rerequested"
             /\ ConfermaStep(chat, ConfirmLine(id), up)
             /\ out'.reply = "deleted") =>
                /\ id \notin DOMAIN Pending(chat_data', chat)
                /\ phase'[chat][id] = "deleted"
      ]_vars

\* C12 witness: the id was requested, the document modified, and the id
\* requested again: the one entry holds the modified document.
RepeatedRequestDone ==
    \E chat \in Chats, id \in IdPool :
        /\ phase[chat][id] = "rerequested"
        /\ out.branch = "ELIMINA"
        /\ out.chat = chat
        /\ out.quote_id = id
        /\ DOMAIN Pending(chat_data, chat) = {id}
        /\ Pending(chat_data, chat)[id].data_modifica # <<>>
        /\ Pending(chat_data, chat)[id] = collection[FirstIndex(collection, id)]

\* C13: an id leaves a chat's pending_deletions only in a step that
\* handles "CONFERMA <id>" in that chat; every other step (of any chat,
\* also one that removes the document) keeps it pending.
PendingUntilConfirmed ==
    [][\A chat \in Chats :
        \A id \in DOMAIN Pending(chat_data, chat) :
            id \notin DOMAIN Pending(chat_data', chat) =>
                \E up \in BOOLEAN : ConfermaStep(chat, ConfirmLine(id), up)
      ]_vars

\* C13 witness: the id is still pending in one chat after another chat
\* requested and confirmed the deletion of its document.
PendingSurvivesRemoval ==
    \E chat \in Chats, id \in IdPool :
        /\ id \in DOMAIN Pending(chat_data, chat)
        /\ FirstIndex(collection, id) = 0
        /\ out.chat \in Chats \ {chat}
        /\ out.reply = "deleted"
        /\ out.quote_id = id

\* C14: every message handled ends with a reply sent to the user: no
\* exception leaves handle_message, whichever store calls fail.
EveryMessageAnswered == out.reply # "exception"

\* C15: a MODIFICA or ELIMINA that names the id of a stored document is
\* never answered "non trovato", also when a store call fails.
StoreFailureNotReportedAsMissing ==
    (out.branch \in {"MODIFICA", "ELIMINA"} /\ out.reply = "not_found")
        => FirstIndex(collection, out.quote_id) = 0

\* C21: a MODIFICA that names an id under which no document is stored is
\* answered "non trovato" and leaves the collection (no document is
\* created) and every chat's pending_deletions as they were.
ModifyOfMissingIdRefused ==
    [][(/\ msgs' = msgs + 1
        /\ out'.branch = "MODIFICA"
        /\ out'.quote_id \in IdPool
        /\ FirstIndex(collection, out'.quote_id) = 0) =>
            /\ out'.reply = "not_found"
            /\ collection' = collection
            /\ chat_data' = chat_data
      ]_vars

\* C21 witness: with another document stored and requested for deletion, a
\* MODIFICA of an id that is not stored was answered "non trovato".
ModifyOfMissingIdHandled ==
    /\ out.branch = "MODIFICA"
    /\ out.reply = "not_found"
    /\ out.quote_id \in IdPool
    /\ FirstIndex(collection, out.quote_id) = 0
    /\ collection # <<>>
    /\ \E chat \in Chats : DOMAIN Pending(chat_data, chat) # {}

(***************************************************************************)
(* Properties of the stored documents.                                     *)
(***************************************************************************)
StoredFields == {"risultato", "quota", "importo", "esito"}

FixedFields == {"quote_id", "data", "registrato_da", "user_id"}

\* vincita agrees with quota, importo and esito
VincitaConsistent(doc) ==
    /\ doc.esito \in {W_VINTA, W_PERSA}
    /\ doc.esito = W_VINTA => doc.vincita = doc.quota * doc.importo
    /\ doc.esito = W_PERSA => doc.vincita = 0

\* C2: in every reachable state, every document of the collection has
\* vincita = quota * importo when its esito is VINTA and vincita = 0 when
\* its esito is PERSA.
PayoutConsistent ==
    \A i \in 1..Len(collection) : VincitaConsistent(collection[i])

\* C2 witness: after an SQ message and a MODIFICA message, the collection
\* holds a won document with a positive vincita and a modified, lost one.
WonAndLostStored ==
    /\ out.reply = "modified"
    /\ \E i, j \in 1..Len(collection) :
            /\ collection[i].esito = W_VINTA
            /\ collection[i].vincita > 0
            /\ collection[j].esito = W_PERSA
            /\ collection[j].data_modifica # <<>>
            /\ collection[j].quota > 0
            /\ collection[j].importo > 0

\* C6: in every reachable state no two documents of the collection have
\* the same quote_id.
QuoteIdsUnique ==
    \A i, j \in 1..Len(collection) :
        collection[i].quote_id = collection[j].quote_id => i = j

\* C7: a step in which update_superquote returned True leaves every other
\* document and the number of documents as they were; in the document it
\* changed, every field of risultato, quota, importo, esito that is absent
\* from the updates keeps its value, quote_id, data, registrato_da and
\* user_id keep theirs, vincita agrees with the resulting quota, importo
\* and esito, and data_modifica is the clock; the simple form sets esito
\* and keeps risultato, quota and importo.
UpdateChangesOnlyItsFields ==
    [][(msgs' = msgs + 1 /\ out'.reply \in {"modified", "exception"}) =>
        LET i == FirstIndex(collection, out'.quote_id)
            updates == out'.updates
        IN /\ i # 0
           /\ \E chat \in Chats, text \in ModifyLines :
                /\ ParsedModify[text].ok
                /\ ParsedModify[text].quote_id = out'.quote_id
                /\ ParsedModify[text].updates = updates
                /\ ModificaStep(chat, text, IF out'.reply = "modified" THEN 0 ELSE 4)
           /\ Len(collection') = Len(collection)
           /\ \A j \in 1..Len(collection) :
                j # i => collection'[j] = collection[j]
           /\ \A fld \in StoredFields \ DOMAIN updates :
                collection'[i][fld] = collection[i][fld]
           /\ \A fld \in FixedFields :
                collection'[i][fld] = collection[i][fld]
           /\ VincitaConsistent(collection'[i])
           /\ collection'[i].data_modifica = <<now>>
           /\ DOMAIN updates = {"esito"} =>
                /\ collection'[i].esito = updates["esito"]
                /\ \A fld \in {"risultato", "quota", "importo"} :
                        collection'[i][fld] = collection[i][fld]
      ]_vars

\* C7 witness: a simple-form MODIFICA was applied: the document is lost,
\* pays nothing, and still has the quota and importo it was stored with.
SimpleModifyApplied ==
    /\ out.branch = "MODIFICA"
    /\ out.reply = "modified"
    /\ \E i \in 1..Len(collection) :
            /\ collection[i].quote_id = out.quote_id
            /\ collection[i].esito = W_PERSA
            /\ collection[i].vincita = 0
            /\ collection[i].quota = 200
            /\ collection[i].importo = 1000
            /\ collection[i].data_modifica = <<now>>

\* doc holds the values that the text FullLine(id) names
SameAsStored(doc) ==
    /\ doc.risultato = T_1MILAN
    /\ doc.quota = 200
    /\ doc.importo = 1000
    /\ doc.esito = W_VINTA

\* the ids whose full-form line is among the messages
FullLineIds == {id \in IdPool : FullLine(id) \in ModifyLines}

\* C8: when a full-form MODIFICA names the risultato, quota, importo and
\* esito stored under its id, a step that applies it leaves every field of
\* that document but data_modifica, and every other document, as they
\* were, and a step that does not apply it leaves the collection as it
\* was; on a document as the SQ message stored it (no data_modifica yet),
\* with the store answering, the reply is the success reply and
\* data_modifica becomes the clock.  (On a document whose data_modifica
\* already is the clock the $set changes nothing, modified_count is 0 and
\* the reply is the error reply.)
FullModifySameValues ==
    [][(msgs' = msgs + 1 /\ out'.branch = "MODIFICA") =>
        \A id \in FullLineIds \cap {out'.quote_id} :
            LET i == FirstIndex(collection, id)
                applied == out'.updates = ParsedModify[FullLine(id)].updates
            IN (i # 0 /\ SameAsStored(collection[i])) =>
                /\ applied =>
                    /\ out'.reply \in {"modified", "exception"}
                    /\ Len(collection') = Len(collection)
                    /\ \A fld \in (DOMAIN collection[i]) \ {"data_modifica"} :
                            collection'[i][fld] = collection[i][fld]
                    /\ collection'[i].data_modifica = <<now>>
                    /\ \A j \in 1..Len(collection) :
                            j # i => collection'[j] = collection[j]
                /\ out'.reply \notin {"modified", "exception"} =>
                        collection' = collection
                /\ ModificaStep(out'.chat, FullLine(id), 0) =>
                        IF collection[i].data_modifica # <<now>>
                        THEN applied /\ out'.reply = "modified"
                        ELSE out'.reply = "modify_error"
      ]_vars

\* C8 witness: the document an SQ message stored was given the full form
\* with its own values, and differs from what was stored in data_modifica only.
RoundTripDone ==
    /\ out.branch = "MODIFICA"
    /\ out.reply = "modified"
    /\ \E i \in 1..Len(collection), id \in IdPool, chat \in AddChats :
            /\ collection[i].data_modifica # <<>>
            /\ collection[i].quote_id = id
            /\ out.quote_id = id
            /\ SameAsStored(collection[i])
            /\ [collection[i] EXCEPT !.data_modifica = <<>>]
                    = NewDoc(ParsedSQ[Join(<<W_SQ, T_1MILAN, T_2_00, T_10_00, W_VINTA>>)]
                                     [id][collection[i].data],
                             Users[chat])

\* C23: in every reachable state every document of the collection has
\* quota > 0 and importo >= 0.
QuotaPositiveImportoNotNegative ==
    \A i \in 1..Len(collection) :
        collection[i].quota > 0 /\ collection[i].importo >= 0

\* C24: no step changes quote_id, data, registrato_da or user_id of a
\* document: a step keeps the documents in place with these four fields,
\* or appends one document to them, or removes one of them.
IdentityFieldsKept ==
    [][\/ /\ Len(collection') = Len(collection)
          /\ \A i \in 1..Len(collection) : \A fld \in FixedFields :
                collection'[i][fld] = collection[i][fld]
       \/ /\ Len(collection') = Len(collection) + 1
          /\ SubSeq(collection', 1, Len(collection)) = collection
       \/ \E k \in 1..Len(collection) : collection' = RemoveAt(collection, k)
      ]_vars

\* C24 witness: the document that one user's SQ message stored at clock 0
\* was modified later by the other user, and has the id, data and sender
\* it was stored with.
ModifiedByAnotherUser ==
    /\ now > 0
    /\ out.branch = "MODIFICA"
    /\ out.chat = "chatB"
    /\ out.reply = "modified"
    /\ \E i \in 1..Len(collection) :
            /\ collection[i].quote_id = out.quote_id
            /\ collection[i].data_modifica = <<now>>
            /\ collection[i].data = 0
            /\ collection[i].registrato_da = Users["chatA"].username
            /\ collection[i].user_id = Users["chatA"].id

\* C25: the document an SQ message stores has no data_modifica; a step
\* changes data_modifica of a document only when it handles a MODIFICA
\* whose update_superquote returned True, and then sets it to the clock;
\* and every such step sets it in the document it names.
ModifiedAtOnlyBySuccessfulModify ==
    [][/\ (msgs' = msgs + 1 /\ out'.branch = "SQ" /\ out'.reply = "added") =>
            collection'[Len(collection')].data_modifica = <<>>
       /\ Len(collection') = Len(collection) =>
            \A i \in 1..Len(collection) :
                collection'[i].data_modifica # collection[i].data_modifica =>
                    /\ msgs' = msgs + 1
                    /\ out'.branch = "MODIFICA"
                    /\ out'.reply \in {"modified", "exception"}
                    /\ out'.quote_id = collection[i].quote_id
                    /\ collection'[i].data_modifica = <<now>>
       /\ (msgs' = msgs + 1 /\ out'.branch = "MODIFICA"
             /\ out'.reply \in {"modified", "exception"}) =>
            LET i == FirstIndex(collection, out'.quote_id)
            IN i # 0 /\ collection'[i].data_modifica = <<now>>
       /\ (msgs' = msgs + 1 /\ out'.branch = "MODIFICA"
             /\ out'.reply \notin {"modified", "exception"}) =>
            collection' = collection
      ]_vars

\* C25 witness: one document was modified at clock 1 and a document stored
\* beside it has no data_modifica.
ModifiedAndUnmodifiedStored ==
    \E i, j \in 1..Len(collection) :
        /\ collection[i].data_modifica = <<1>>
        /\ collection[j].data_modifica = <<>>
        /\ out.reply = "modified"
        /\ out.quote_id = collection[i].quote_id

(***************************************************************************)
(* Properties of the reports (under SpecBalance).                          *)
(***************************************************************************)
\* the step handles that SQ message
SQStep(chat, text, new_id, up) ==
    /\ msgs' = msgs + 1
    /\ out'.branch = "SQ"
    /\ HandleSQ(chat, text, new_id, up)

\* the step handles that report command
ReportStep(command) ==
    /\ view = NoView
    /\ view' # NoView
    /\ view'.command = command

\* what one document adds to the running balance
NetOf(sq) ==
    IF sq.esito = W_VINTA THEN sq.vincita - sq.importo * 100 ELSE 0 - sq.importo * 100

\* the balance after each of the documents, taken in the order given
RunningBalance(ordered) ==
    [k \in 1..Len(ordered) |-> SumSeq([j \in 1..k |-> NetOf(ordered[j])])]

\* the documents oldest first, documents of equal data in any order
AscendingOrders(coll) ==
    {[k \in 1..Len(order) |-> order[Len(order) + 1 - k]] :
        order \in DescendingOrders(coll)}

\* C16: an SQ message whose insert_one fails stores nothing and is answered
\* with the save error, never as registered; a failed read of show_stats,
\* show_list or generate_profit_graph is an empty list (answered as no
\* documents), and calculate_balance on a failed read is the balance of
\* zeros.
WritesFailClosedReadsFailOpen ==
    [][/\ \A chat \in AddChats, text \in SqLines, new_id \in IdPool :
            SQStep(chat, text, new_id, FALSE) =>
                /\ collection' = collection
                /\ out'.reply # "added"
                /\ ParsedSQ[text][new_id][now].ok => out'.reply = "save_error"
       /\ \A command \in {"stats", "list", "grafico"} :
            (ReportStep(command) /\ ~view'.read_ok) =>
                /\ view'.superquotes = <<>>
                /\ view'.cumulative_profit = <<>>
                /\ view'.reply = "empty"
       /\ (ReportStep("stats") /\ ~view'.count_ok) =>
                view'.balance_data = ZeroBalance
      ]_vars

\* C16 witness: with documents stored, an SQ message was answered with the
\* save error and the statistics then read nothing and counted nothing.
FailedAddAndFailedRead ==
    /\ collection # <<>>
    /\ out.branch = "SQ"
    /\ out.reply = "save_error"
    /\ view.command = "stats"
    /\ ~view.read_ok
    /\ ~view.count_ok
    /\ view.reply = "empty"
    /\ view.balance_data = ZeroBalance

\* C17: whatever the collection holds, the balance of show_stats has
\* total_bet = the sum of importo of all documents, total_winnings = the
\* sum of vincita of the VINTA documents, saldo = total_winnings -
\* total_bet, and wins and losses = the numbers of VINTA and PERSA
\* documents.
BalanceSumsAllRecords ==
    [][(ReportStep("stats") /\ view'.count_ok) =>
            LET balance_data == view'.balance_data
            IN /\ balance_data.total_bet = SumSeq(Importi(collection))
               /\ balance_data.total_winnings = SumSeq(VinciteOf(collection, W_VINTA))
               /\ balance_data.saldo
                    = balance_data.total_winnings - balance_data.total_bet * 100
               /\ balance_data.wins = CountOf(collection, W_VINTA)
               /\ balance_data.losses = CountOf(collection, W_PERSA)
      ]_vars

\* C18: total_bets of the balance is the number of documents in the
\* collection, however many it holds.
BalanceCoversEveryRecord ==
    [][(ReportStep("stats") /\ view'.count_ok) =>
            view'.balance_data.total_bets = Len(collection)
      ]_vars

\* C19: the series of generate_profit_graph has one value per document of
\* the collection, and its k-th value is the sum of vincita - importo
\* (VINTA) or - importo (otherwise) over the k oldest documents.
SeriesOneEntryPerRecord ==
    [][(ReportStep("grafico") /\ view'.read_ok) =>
            /\ Len(view'.cumulative_profit) = Len(collection)
            /\ \E ordered \in AscendingOrders(collection) :
                    view'.cumulative_profit = RunningBalance(ordered)
      ]_vars

\* C20: the series is the one of the documents taken oldest first, with
\* documents of equal data in the order of their insertion, whichever
\* order the read returned them in.
SeriesTiesInInsertionOrder ==
    [][(ReportStep("grafico") /\ view'.read_ok /\ Len(collection) <= ReadCap) =>
            view'.cumulative_profit = RunningBalance(SortedByData(collection))
      ]_vars

EsitoAlwaysWinOrLoss ==
    /\ \A i \in 1..Len(collection) : collection[i].esito \in {W_VINTA, W_PERSA}
    /\ view.balance_data.wins + view.balance_data.losses
            = view.balance_data.total_bets

\* C33 witness: /stats counted one win and one loss in a collection of two
\* documents, one of them modified.
WinAndLossCounted ==
    /\ view.command = "stats"
    /\ view.count_ok
    /\ view.balance_data.wins = 1
    /\ view.balance_data.losses = 1
    /\ view.balance_data.total_bets = 2
    /\ \E i \in 1..Len(collection) : collection[i].data_modifica # <<>>

(***************************************************************************)
(* Properties of the deletion and of failed messages (under Spec).         *)
(***************************************************************************)
\* C34: a step that handles an ELIMINA message, accepted or not, leaves the
\* collection as it was, and a step that handles an SQ or a MODIFICA message
\* leaves the pending_deletions of every chat as they were.
StoreAndPendingChangedApart ==
    [][msgs' = msgs + 1 =>
        /\ out'.branch = "ELIMINA" => collection' = collection
        /\ out'.branch \in {"SQ", "MODIFICA"} => chat_data' = chat_data
      ]_vars

\* C34 witness: a MODIFICA changed a document that a chat holds in its
\* pending_deletions since an ELIMINA, and the dict kept there is still the
\* document as it was.
ModifiedWhilePending ==
    /\ out.branch = "MODIFICA"
    /\ out.reply = "modified"
    /\ \E chat \in Chats :
            /\ PendingHas(chat_data[chat], out.quote_id)
            /\ chat_data[chat].pending_deletions[out.quote_id].data_modifica = <<>>
            /\ \E i \in 1..Len(collection) :
                    /\ collection[i].quote_id = out.quote_id
                    /\ collection[i].data_modifica # <<>>

\* C31: a confirmed deletion removes the first document stored under the
\* id at that moment and nothing else, also when that document differs from
\* the dict ELIMINA kept in pending_deletions (it was modified in between):
\* the kept dict is not compared with the document and no document of the
\* collection afterwards comes from it.
ConfirmDeletesCurrentRecord ==
    [][(msgs' = msgs + 1 /\ out'.branch = "CONFERMA" /\ out'.reply = "deleted") =>
        LET i == FirstIndex(collection, out'.quote_id)
        IN /\ i # 0
           /\ collection' = RemoveAt(collection, i)
           /\ out'.differs <=>
                chat_data[out'.chat].pending_deletions[out'.quote_id] # collection[i]
      ]_vars

\* C31 witness: a CONFERMA deleted a document that had been modified after
\* the ELIMINA of the same chat.
ModifiedRecordDeleted ==
    /\ out.branch = "CONFERMA"
    /\ out.reply = "deleted"
    /\ out.differs
    /\ FirstIndex(collection, out.quote_id) = 0

\* C30: a MODIFICA whose update_superquote returns False although the
\* document is stored (an esito value of neither group in the single-field
\* form, a quota that is no number, a failing find_one or update_one of the
\* update) is answered "Errore durante la modifica" and leaves the
\* collection as it was: no field of the document changes, vincita and
\* data_modifica included.
FailedModifyKeepsRecord ==
    /\ [](\A text \in ModifyLines, fail_at \in {0, 2, 3} :
            (/\ msgs < MaxMsgs
             /\ ParsedModify[text].ok
             /\ FirstIndex(collection, ParsedModify[text].quote_id) # 0
             /\ \/ fail_at \in {2, 3}
                \/ text \in {Join(<<W_MODIFICA, ID_A, T_1MILAN, T_1_2_3, T_10_00, W_VINTA>>),
                             Join(<<W_MODIFICA, ID_A, W_ESITO \o <<"=">> \o T_1MILAN, T_BOH>>)}) =>
                LET r == ModificaResult(collection, text, now, fail_at)
                IN r.reply = "modify_error" /\ r.coll = collection)
    /\ [][(msgs' = msgs + 1 /\ out'.branch = "MODIFICA"
            /\ out'.reply = "modify_error") =>
                /\ collection' = collection
                /\ chat_data' = chat_data
                /\ FirstIndex(collection, out'.quote_id) # 0
         ]_vars

\* C30 witness: a MODIFICA for a stored document was answered "Errore
\* durante la modifica", and the document has never been modified.
FailedModifyOfStoredRecord ==
    /\ out.branch = "MODIFICA"
    /\ out.reply = "modify_error"
    /\ \E i \in 1..Len(collection) :
            /\ collection[i].quote_id = out.quote_id
            /\ collection[i].data_modifica = <<>>
            /\ VincitaConsistent(collection[i])

\* C28: a message that starts with none of SQ, MODIFICA, ELIMINA, DELETE,
\* CONFERMA gets no reply and changes nothing; a message that starts with
\* one of them without being a command of that kind (a number that is no
\* decimal, an id that is not eight characters, CONFERMA without an id, a
\* first token that only starts with CONFERMA) gets an error reply and
\* leaves the collection and every chat's pending_deletions as they were.
MalformedLineChangesNothing ==
    [][\A chat \in Chats :
        /\ (msgs' = msgs + 1 /\ out'.branch = "none") =>
                /\ out'.reply = "none"
                /\ collection' = collection
                /\ chat_data' = chat_data
        /\ \A text \in {Join(<<W_SQ, T_1MILAN, T_1_2_3, T_10_00, W_W>>),
                         Join(<<W_MODIFICA, ID_A, T_1MILAN, T_1_2_3, T_10_00, W_VINTA>>),
                         Join(<<W_ELIMINA, T_BOH>>),
                         W_CONFERMA,
                         LookalikeLine(ID_A)} :
            (/\ msgs' = msgs + 1
             /\ out'.chat = chat
             /\ out'.branch = BranchOf[text]
             /\ \/ \E fail_at \in 0..4 : HandleModifica(chat, text, fail_at)
                \/ \E up \in BOOLEAN : HandleElimina(chat, text, up)
                \/ \E up \in BOOLEAN : HandleConferma(chat, text, up)
                \/ \E new_id \in IdPool, up \in BOOLEAN : HandleSQ(chat, text, new_id, up)) =>
                /\ out'.reply \in {"add_format", "modify_format", "delete_format",
                                   "confirm_format", "confirm_expired", "not_found",
                                   "modify_error"}
                /\ collection' = collection
                /\ chat_data' = chat_data
      ]_vars

\* C29: a two-token message whose first token starts with CONFERMA without
\* being it (CONFERMATO <id>) never deletes: no step that handle_message
\* takes on such a message removes the document or reports it deleted.
LookalikeNeverDeletes ==
    [][\A chat \in Chats :
        (/\ msgs' = msgs + 1
         /\ out'.branch = "CONFERMA"
         /\ out'.chat = chat
         /\ out'.reply = "deleted"
         /\ Len(collection') < Len(collection)) =>
            ~\E up \in BOOLEAN : HandleConferma(chat, LookalikeLine(ID_A), up)
      ]_vars

(***************************************************************************)
(* Properties of update_superquote store call by store call (under         *)
(* SpecRace).                                                              *)
(***************************************************************************)
\* C26: the update_one of a call stores the vincita of the quota, importo
\* and esito that its find_one returned, each replaced by the call's own
\* update where it has one, whatever the document holds by then; the
\* document is consistent after the write when no other write came between
\* the call's find_one and its update_one.
WriteUsesValuesRead ==
    [][\A chat \in Chats :
        (upd[chat].pc = "found" /\ upd'[chat].pc = "idle"
            /\ collection' # collection) =>
            LET i == FirstIndex(collection, upd[chat].quote_id)
                existing == upd[chat].existing
                updates == upd[chat].updates
                written == collection'[i]
                final_quota == IF Has(updates, "quota")
                               THEN written.quota ELSE existing.quota
                final_importo == IF Has(updates, "importo")
                                 THEN written.importo ELSE existing.importo
                final_esito == IF Has(updates, "esito")
                               THEN written.esito ELSE existing.esito
            IN /\ written.vincita = IF final_esito = W_VINTA
                                    THEN final_quota * final_importo ELSE 0
               /\ \A fld \in StoredFields \ DOMAIN updates :
                    written[fld] = collection[i][fld]
               /\ existing = collection[i] => VincitaConsistent(written)
      ]_vars

\* C26 witness: both calls have returned and the document's vincita is not
\* the one of its quota, importo and esito.
StalePayoutStored ==
    /\ \A chat \in Chats : upd[chat].pc = "idle"
    /\ \E i \in 1..Len(collection) :
            /\ collection[i].esito = W_VINTA
            /\ collection[i].vincita # collection[i].quota * collection[i].importo

(***************************************************************************)
(* Properties of the grammar (under SpecGrammar).                          *)
(***************************************************************************)
\* C5: every text MODIFICA-<id>-<FIELD>=<value>, for each of the four
\* fields and each non-empty value, parses to a modify command for that id
\* whose updates hold that one field with that value (in the upper case
\* the parser puts the whole text in).
SingleFieldAlwaysParses ==
    src.form = "field" =>
        /\ cmd.branch = "MODIFICA"
        /\ cmd.modify.ok
        /\ cmd.modify.quote_id = src.parts[1]
        /\ DOMAIN cmd.modify.updates = {FieldKey(src.parts[2])}
        /\ cmd.modify.updates[FieldKey(src.parts[2])] = Upper(src.parts[3])
\* the canonical esito of a token, <<>> for a token of neither group
CanonicalEsito(tok) ==
    IF Upper(tok) \in {W_VINTA, W_VINCITA, W_WIN, W_W} THEN W_VINTA
    ELSE IF Upper(tok) \in {W_PERSA, W_PERDITA, W_LOSS, W_L, W_PERSO} THEN W_PERSA
    ELSE <<>>

\* C22: the four places that read an outcome token agree: the simple form,
\* the full form, the SQ line and update_superquote each take a token of
\* the win group to VINTA and one of the loss group to PERSA in any letter
\* case, and reject every other token (no command, no update_fields).
OutcomeNormalizedAlike ==
    /\ src.form = "simple" =>
        LET tok == src.parts[2]
        IN /\ cmd.modify.ok <=> CanonicalEsito(tok) # <<>>
           /\ cmd.modify.ok => cmd.modify.updates = ("esito" :> CanonicalEsito(tok))
           /\ UpdatesAccepted("esito" :> tok) <=> CanonicalEsito(tok) # <<>>
           /\ UpdatesAccepted("esito" :> tok) =>
                UpdateFields(NoDoc, "esito" :> tok, 0)["esito"] = CanonicalEsito(tok)
    /\ src.form = "full" =>
        LET tok == src.parts[5]
        IN /\ cmd.modify.ok <=> CanonicalEsito(tok) # <<>>
           /\ cmd.modify.ok => cmd.modify.updates["esito"] = CanonicalEsito(tok)
    /\ src.form = "add" =>
        LET tok == src.parts[4]
        IN /\ cmd.add.ok => cmd.add.esito = CanonicalEsito(tok)
           /\ (Float(src.parts[2]).ok /\ Float(src.parts[3]).ok) =>
                (cmd.add.ok <=> CanonicalEsito(tok) # <<>>)
    /\ (src.form = "field" /\ cmd.modify.ok /\ Has(cmd.modify.updates, "esito")) =>
        LET tok == cmd.modify.updates["esito"]
        IN /\ UpdatesAccepted(cmd.modify.updates) <=> CanonicalEsito(tok) # <<>>
           /\ UpdatesAccepted(cmd.modify.updates) =>
                UpdateFields(NoDoc, cmd.modify.updates, 0)["esito"] = CanonicalEsito(tok)

\* C22 witness: a lower-case synonym of the loss group on an SQ line was
\* parsed to PERSA.
LowerCaseSynonymParsed ==
    /\ src.form = "add"
    /\ src.parts[4] = Lower(W_L)
    /\ cmd.add.ok
    /\ cmd.add.esito = W_PERSA

\* C27: an SQ line or a full-form MODIFICA line whose quota or importo
\* token is not a decimal number (1.2.3, or a lone dot) yields no command:
\* parse_superquote and parse_modify_command both return None for it.
NonDecimalNumberRejected ==
    /\ (src.form = "add" /\ ~(Float(src.parts[2]).ok /\ Float(src.parts[3]).ok)) =>
            ~cmd.add.ok
    /\ (src.form = "full" /\ ~(Float(src.parts[3]).ok /\ Float(src.parts[4]).ok)) =>
            ~cmd.modify.ok

=============================================================================
